---- MODULE Spec2Model ----
(***************************************************************************)
(* NetSentinel Ingestor: the request validator (app/schemas.py), the       *)
(* process-wide Kafka producer and its lifespan, and the /health and       *)
(* /api/v1/logs/ingest handlers (app/main.py).                             *)
(***************************************************************************)
EXTENDS Integers, Sequences, FiniteSets, TLC

(***************************************************************************)
(* Bounds of the model.                                                    *)
(***************************************************************************)
\* Number of ingest requests issued over the life of the process.
NumRequests == 2

(***************************************************************************)
(* Program constants.                                                      *)
(***************************************************************************)
SOURCE_MIN_LENGTH == 1
SOURCE_MAX_LENGTH == 255
MESSAGE_MIN_LENGTH == 1
MESSAGE_MAX_LENGTH == 10000
HTTP_200_OK == 200
HTTP_202_ACCEPTED == 202
HTTP_422_UNPROCESSABLE_ENTITY == 422
HTTP_500_INTERNAL_SERVER_ERROR == 500
HTTP_503_SERVICE_UNAVAILABLE == 503

LogsTopic == "logs-raw"
LevelNames == {"DEBUG", "INFO", "WARNING", "ERROR", "CRITICAL"}

(***************************************************************************)
(* JSON values of a request body.  A value is a record [type, len, text]:  *)
(* type is its JSON type ("absent" when the key is missing), len the       *)
(* number of characters of a string, text the characters of a short        *)
(* string (long strings are given by their length alone).                  *)
(***************************************************************************)
Absent == [type |-> "absent", len |-> 0, text |-> ""]
Null == [type |-> "null", len |-> 0, text |-> ""]
Number == [type |-> "number", len |-> 0, text |-> ""]
Array == [type |-> "array", len |-> 0, text |-> ""]
Object == [type |-> "object", len |-> 1, text |-> ""]
EmptyObject == [type |-> "object", len |-> 0, text |-> ""]
Str(s) == [type |-> "string", len |-> Len(s), text |-> s]
StrOfLen(n) == [type |-> "string", len |-> n, text |-> ""]

IsoTimestamp == "2025-12-11T10:30:00Z"
IsoTimestamps == {IsoTimestamp}

TimestampInputs == {Absent, Null, Number, Object, Str(IsoTimestamp), Str("not-a-date"), Str("")}
SourceInputs ==
    {Absent, Null, Number, Str("web-api")}
        \cup {StrOfLen(n) : n \in {0, 1, SOURCE_MAX_LENGTH, SOURCE_MAX_LENGTH + 1}}
LevelInputs ==
    {Absent, Null, Number}
        \cup {Str(s) : s \in LevelNames \cup {"TRACE", "info", "", "ERROR\n", "XINFO"}}
MessageInputs ==
    {Absent, Null, Number, Str("Database connection timeout")}
        \cup {StrOfLen(n) : n \in {0, 1, MESSAGE_MAX_LENGTH, MESSAGE_MAX_LENGTH + 1}}
MetadataInputs == {Absent, Null, Number, Array, Str("x"), Object, EmptyObject}

\* Every request body the validator is exercised on.
Bodies ==
    [timestamp : TimestampInputs, source : SourceInputs, level : LevelInputs,
     message : MessageInputs, metadata : MetadataInputs]

\* The example body of the schema.
ExampleBody ==
    [timestamp |-> Str(IsoTimestamp), source |-> Str("web-api"), level |-> Str("ERROR"),
     message |-> Str("Database connection timeout"), metadata |-> Object]

\* Placeholder where no body has been received.
NoBody ==
    [timestamp |-> Absent, source |-> Absent, level |-> Absent, message |-> Absent,
     metadata |-> Absent]

(***************************************************************************)
(* LogCreate: the field constraints.                                       *)
(***************************************************************************)
\* timestamp: datetime = Field(...): required; a string must parse as a
\* date-time, a number is read as a Unix time.
ParsesAsDatetime(v) ==
    \/ v.type = "string" /\ v.text \in IsoTimestamps
    \/ v.type = "number"

TimestampOK(v) == ParsesAsDatetime(v)

\* Mutant of SourceOK: max_length is not enforced.
SourceOK_NoMaxLength(v) == v.type = "string" /\ v.len >= SOURCE_MIN_LENGTH

\* source: str = Field(..., min_length=1, max_length=255)
SourceOK(v) ==
    /\ v.type = "string"
    /\ v.len >= SOURCE_MIN_LENGTH
    /\ v.len <= SOURCE_MAX_LENGTH

\* level: str = Field(..., pattern="^(DEBUG|INFO|WARNING|ERROR|CRITICAL)$")
\* The pattern is anchored at both ends of the text: only the five names match.
MatchesLevelPattern(s) == s \in LevelNames

LevelOK(v) == v.type = "string" /\ MatchesLevelPattern(v.text)

\* Mutant of MessageOK: the upper bound is exclusive.
MessageOK_ExclusiveMax(v) ==
    /\ v.type = "string"
    /\ v.len >= MESSAGE_MIN_LENGTH
    /\ v.len < MESSAGE_MAX_LENGTH

\* message: str = Field(..., min_length=1, max_length=10000)
MessageOK(v) ==
    /\ v.type = "string"
    /\ v.len >= MESSAGE_MIN_LENGTH
    /\ v.len <= MESSAGE_MAX_LENGTH

\* metadata: Optional[Dict[str, Any]] = Field(default_factory=dict)
MetadataOK(v) == v.type \in {"absent", "null", "object"}

MetadataValue(v) == IF v.type = "absent" THEN EmptyObject ELSE v

\* The fields of a body that fail their constraint.
FieldErrors(body) ==
    {f \in {"timestamp"} : ~TimestampOK(body.timestamp)}
        \cup {f \in {"source"} : ~SourceOK(body.source)}
        \cup {f \in {"level"} : ~LevelOK(body.level)}
        \cup {f \in {"message"} : ~MessageOK(body.message)}
        \cup {f \in {"metadata"} : ~MetadataOK(body.metadata)}

\* LogCreate.model_validate(body): the instance, or the failing fields.
Validate(body) ==
    LET errors == FieldErrors(body) IN
    [ok |-> errors = {},
     errors |-> errors,
     value |-> IF errors = {}
                 THEN [body EXCEPT !.metadata = MetadataValue(body.metadata)]
                 ELSE body]

NotValidated == [ok |-> FALSE, errors |-> {"pending"}, value |-> NoBody]

(***************************************************************************)
(* Request bodies posted to the ingest endpoint: the example body and the  *)
(* bodies that differ from it in one field.                                *)
(***************************************************************************)
RequestBodies ==
    {ExampleBody}
        \cup {[ExampleBody EXCEPT !.timestamp = v] : v \in {Absent, Str("not-a-date")}}
        \cup {[ExampleBody EXCEPT !.source = v] :
                v \in {Absent, StrOfLen(SOURCE_MAX_LENGTH + 1)}}
        \cup {[ExampleBody EXCEPT !.level = v] : v \in {Absent, Str("TRACE")}}
        \cup {[ExampleBody EXCEPT !.message = v] :
                v \in {Absent, StrOfLen(MESSAGE_MAX_LENGTH + 1)}}
        \cup {[ExampleBody EXCEPT !.metadata = v] : v \in {Absent, Null, Array, Str("x")}}

\* Diagnostic texts a KafkaError raised by the broker client may carry.
BrokerMessages == {"NotLeaderForPartitionError", "RequestTimedOutError"}

Requests == 1..NumRequests

(***************************************************************************)
(* State.                                                                  *)
(***************************************************************************)
VARIABLES
    kafka_producer, \* the module global: "None" or "producer"
    client,         \* the AIOKafkaProducer object: "absent", "created", "started",
                    \* "failed" (start() raised) or "stopped"
    lifespan,       \* position of the lifespan coroutine: "boot", "starting" (in
                    \* await start()), "serving" (at yield), "stopping" (in await
                    \* stop()), "exited"
    req,            \* the ingest requests, by order of arrival
    calls,          \* calls[i]: send_and_wait calls made on the client for request i
    health,         \* the last /health response, with the publisher state it was
                    \* computed in
    payload,        \* the body handed to LogCreate (validator specification)
    parsed          \* what LogCreate made of payload (validator specification)

vars == <<kafka_producer, client, lifespan, req, calls, health, payload, parsed>>

\* The state of the publisher, read off the global and the client object.
PublisherState ==
    IF client = "stopped" THEN "Closed"
    ELSE IF kafka_producer # "None" /\ client = "started" THEN "Connected"
    ELSE "Disconnected"

NoResponse == [code |-> 0, detail |-> ""]
NoPayload == [topic |-> "", value |-> NoBody, timestamp |-> ""]

IdleRequest ==
    [state |-> "idle", body |-> NoBody, at |-> "", outcome |-> "none",
     error |-> "", sent |-> NoPayload, resp |-> NoResponse]

NoHealth == [code |-> 0, status |-> "", kafka |-> "", at |-> ""]

Init ==
    /\ kafka_producer = "None"
    /\ client = "absent"
    /\ lifespan = "boot"
    /\ req = [i \in Requests |-> IdleRequest]
    /\ calls = [i \in Requests |-> 0]
    /\ health = NoHealth
    /\ payload = NoBody
    /\ parsed = NotValidated

(***************************************************************************)
(* lifespan: startup and shutdown of the producer.                         *)
(***************************************************************************)
\* kafka_producer = AIOKafkaProducer(...), then the coroutine awaits start().
CreateProducer ==
    /\ lifespan = "boot"
    /\ kafka_producer' = "producer"
    /\ client' = "created"
    /\ lifespan' = "starting"
    /\ UNCHANGED <<req, calls, health, payload, parsed>>

\* await kafka_producer.start() returns.
StartSucceeds ==
    /\ lifespan = "starting"
    /\ client' = "started"
    /\ lifespan' = "serving"
    /\ UNCHANGED <<kafka_producer, req, calls, health, payload, parsed>>

\* await kafka_producer.start() raises: except Exception: kafka_producer = None.
StartFails ==
    /\ lifespan = "starting"
    /\ client' = "failed"
    /\ kafka_producer' = "None"
    /\ lifespan' = "serving"
    /\ UNCHANGED <<req, calls, health, payload, parsed>>

\* Mutant of ShutdownStopsProducer: stop() is called whatever the global holds.
ShutdownStopsProducer_Always == TRUE

\* if kafka_producer: (shutdown)
ShutdownStopsProducer == kafka_producer # "None"

\* The context manager resumes after yield.
Shutdown ==
    /\ lifespan = "serving"
    /\ lifespan' = IF ShutdownStopsProducer THEN "stopping" ELSE "exited"
    /\ UNCHANGED <<kafka_producer, client, req, calls, health, payload, parsed>>

\* await kafka_producer.stop() returns; the global keeps the stopped object.
StopCompletes ==
    /\ lifespan = "stopping"
    /\ client' = "stopped"
    /\ lifespan' = "exited"
    /\ UNCHANGED <<kafka_producer, req, calls, health, payload, parsed>>

(***************************************************************************)
(* Requests.  The server hands a request to the application whenever the   *)
(* lifespan coroutine is not suspended inside start() or stop(): before it *)
(* has run, between startup and shutdown, and after it has exited (the     *)
(* application object and the module global outlive the context manager).  *)
(***************************************************************************)
Accepting == lifespan \in {"boot", "serving", "exited"}

\* kafka_status = "connected" if kafka_producer else "disconnected"
KafkaStatus == IF kafka_producer # "None" THEN "connected" ELSE "disconnected"

\* GET /health
HealthCheck ==
    /\ Accepting
    /\ health' = [code |-> HTTP_200_OK, status |-> "healthy", kafka |-> KafkaStatus,
                  at |-> PublisherState]
    /\ UNCHANGED <<kafka_producer, client, lifespan, req, calls, payload, parsed>>

UnavailableDetail ==
    "Log ingestion service is temporarily unavailable. Kafka is not connected."
QueueFailedPrefix == "Failed to queue log for processing: "
UnexpectedDetail == "An unexpected error occurred while processing the log"

\* The response to a body LogCreate rejects (the handler is not entered).
ValidationErrorResponse ==
    [code |-> HTTP_422_UNPROCESSABLE_ENTITY, status |-> "", detail |-> "validation error"]

UnavailableResponse ==
    [code |-> HTTP_503_SERVICE_UNAVAILABLE, status |-> "", detail |-> UnavailableDetail]

\* LogResponse(status="accepted", message="Log queued for processing")
AcceptedResponse ==
    [code |-> HTTP_202_ACCEPTED, status |-> "accepted", detail |-> "Log queued for processing"]

\* datetime.isoformat() of the parsed timestamp.
IsoFormat(v) ==
    IF v.type = "string" /\ v.text = IsoTimestamp
    THEN "2025-12-11T10:30:00+00:00"
    ELSE "1970-01-01T00:00:00+00:00"

\* log_data: model_dump(mode='json') with the timestamp as isoformat(), and the
\* topic it is sent to.
LogData(value) ==
    [topic |-> LogsTopic, value |-> value, timestamp |-> IsoFormat(value.timestamp)]

\* if not kafka_producer: raise HTTPException(503)
ProducerAvailable == kafka_producer # "None"

\* Mutant of RecordCall: the call made for request i displaces the others'.
RecordCall_LostUpdate(i) == [j \in Requests |-> IF j = i THEN 1 ELSE 0]

\* One more send_and_wait call on the client, made for request i.
RecordCall(i) == [calls EXCEPT ![i] = @ + 1]

\* POST /api/v1/logs/ingest, up to the handler's first suspension: the body is
\* validated, the producer is checked, and send_and_wait is called.
IngestLog(i, body) ==
    /\ Accepting
    /\ req[i].state = "idle"
    /\ \A j \in Requests : j < i => req[j].state # "idle"
    /\ LET v == Validate(body)
           arrived == [req[i] EXCEPT !.body = body, !.at = PublisherState]
       IN  IF ~v.ok
           THEN /\ req' = [req EXCEPT ![i] =
                             [arrived EXCEPT !.state = "done",
                                             !.resp = ValidationErrorResponse]]
                /\ calls' = calls
           ELSE IF ~ProducerAvailable
           THEN /\ req' = [req EXCEPT ![i] =
                             [arrived EXCEPT !.state = "done",
                                             !.resp = UnavailableResponse]]
                /\ calls' = calls
           ELSE /\ req' = [req EXCEPT ![i] =
                             [arrived EXCEPT !.state = "awaiting",
                                             !.sent = LogData(v.value)]]
                /\ calls' = RecordCall(i)
    /\ UNCHANGED <<kafka_producer, client, lifespan, health, payload, parsed>>

(***************************************************************************)
(* The broker client settles a pending send_and_wait.                      *)
(***************************************************************************)
Pending(i) == req[i].state = "awaiting" /\ req[i].outcome = "none"

\* The broker acknowledges the record (acks='all').
BrokerAcks(i) ==
    /\ Pending(i)
    /\ client = "started"
    /\ req' = [req EXCEPT ![i].outcome = "ack"]
    /\ UNCHANGED <<kafka_producer, client, lifespan, calls, health, payload, parsed>>

\* send_and_wait raises a KafkaError carrying msg.
KafkaErrorRaised(i, msg) ==
    /\ Pending(i)
    /\ req' = [req EXCEPT ![i].outcome = "kafka_error", ![i].error = msg]
    /\ UNCHANGED <<kafka_producer, client, lifespan, calls, health, payload, parsed>>

\* send_and_wait raises an exception that is no KafkaError.
OtherErrorRaised(i) ==
    /\ Pending(i)
    /\ req' = [req EXCEPT ![i].outcome = "error", ![i].error = "TypeError"]
    /\ UNCHANGED <<kafka_producer, client, lifespan, calls, health, payload, parsed>>

\* Mutant of SendSettled: send() without the wait (fire and forget).
SendSettled_FireAndForget(i) == TRUE

\* await send_and_wait(...) is over: it returned or raised.
SendSettled(i) == req[i].outcome # "none"

\* Mutant of ResponseFor: the KafkaError's text is left out of the detail.
ResponseFor_NoBrokerMessage(outcome, error) ==
    IF outcome = "kafka_error"
    THEN [code |-> HTTP_503_SERVICE_UNAVAILABLE, status |-> "",
          detail |-> QueueFailedPrefix]
    ELSE IF outcome = "error"
    THEN [code |-> HTTP_500_INTERNAL_SERVER_ERROR, status |-> "",
          detail |-> UnexpectedDetail]
    ELSE AcceptedResponse

\* Mutant of ResponseFor: every exception is answered as a KafkaError is.
ResponseFor_AnyExceptionUnavailable(outcome, error) ==
    IF outcome \in {"kafka_error", "error"}
    THEN [code |-> HTTP_503_SERVICE_UNAVAILABLE, status |-> "",
          detail |-> QueueFailedPrefix \o error]
    ELSE AcceptedResponse

\* The try block's outcome as a response.
ResponseFor(outcome, error) ==
    IF outcome = "kafka_error"
    THEN [code |-> HTTP_503_SERVICE_UNAVAILABLE, status |-> "",
          detail |-> QueueFailedPrefix \o error]
    ELSE IF outcome = "error"
    THEN [code |-> HTTP_500_INTERNAL_SERVER_ERROR, status |-> "",
          detail |-> UnexpectedDetail]
    ELSE AcceptedResponse

\* The handler resumes after the await and responds.
Resume(i) ==
    /\ req[i].state = "awaiting"
    /\ SendSettled(i)
    /\ req' = [req EXCEPT ![i].state = "done",
                          ![i].resp = ResponseFor(req[i].outcome, req[i].error)]
    /\ UNCHANGED <<kafka_producer, client, lifespan, calls, health, payload, parsed>>

Next ==
    \/ CreateProducer
    \/ StartSucceeds
    \/ StartFails
    \/ Shutdown
    \/ StopCompletes
    \/ HealthCheck
    \/ \E i \in Requests, body \in RequestBodies : IngestLog(i, body)
    \/ \E i \in Requests : BrokerAcks(i)
    \/ \E i \in Requests, msg \in BrokerMessages : KafkaErrorRaised(i, msg)
    \/ \E i \in Requests : OtherErrorRaised(i)
    \/ \E i \in Requests : Resume(i)

Spec == Init /\ [][Next]_vars

(***************************************************************************)
(* The validator on its own: every body of Bodies is handed to LogCreate.  *)
(***************************************************************************)
ValidatorInit ==
    /\ kafka_producer = "None"
    /\ client = "absent"
    /\ lifespan = "boot"
    /\ req = [i \in Requests |-> IdleRequest]
    /\ calls = [i \in Requests |-> 0]
    /\ health = NoHealth
    /\ payload \in Bodies
    /\ parsed = NotValidated

ValidateBody ==
    /\ parsed = NotValidated
    /\ parsed' = Validate(payload)
    /\ UNCHANGED <<kafka_producer, client, lifespan, req, calls, health, payload>>

ValidatorNext == ValidateBody

ValidatorSpec == ValidatorInit /\ [][ValidatorNext]_vars

(***************************************************************************)
(* Properties.                                                             *)
(***************************************************************************)
Present(v) == v.type # "absent"
HasChars(v, lo, hi) == v.type = "string" /\ lo <= v.len /\ v.len <= hi
IsLevelName(v) ==
    \E s \in {"DEBUG", "INFO", "WARNING", "ERROR", "CRITICAL"} : v = Str(s)

\* A record is acceptable when the four required fields are present and well
\* formed and metadata is one of the JSON types of okMetadata.
Acceptable(body, okMetadata) ==
    /\ Present(body.timestamp) /\ Present(body.source)
    /\ Present(body.level) /\ Present(body.message)
    /\ ParsesAsDatetime(body.timestamp)
    /\ HasChars(body.source, 1, 255)
    /\ HasChars(body.message, 1, 10000)
    /\ IsLevelName(body.level)
    /\ body.metadata.type \in okMetadata

Handled(i) == req[i].state # "idle"
Done(i) == req[i].state = "done"
IsClientError(code) == 400 <= code /\ code <= 499

\* C1, as stated: a request whose record misses a required field, has an
\* unparsable timestamp, breaks a length bound, has a level outside the
\* enumeration or has metadata that is not an object is rejected with a client
\* error and no send_and_wait call is made for it.
C1_RejectedNonObjectMetadata ==
    \A i \in Requests :
        Handled(i) /\ ~Acceptable(req[i].body, {"absent", "object"})
            => /\ Done(i)
               /\ IsClientError(req[i].resp.code)
               /\ calls[i] = 0

\* C1, amended: as stated, with null metadata not counted as a failure (it
\* passes the schema): every other failing record is rejected with 422 as the
\* request arrives, in every publisher state, and no send_and_wait call is ever
\* made for it.
C1_InvalidNeverSent ==
    \A i \in Requests :
        Handled(i) /\ ~Acceptable(req[i].body, {"absent", "null", "object"})
            => /\ Done(i)
               /\ req[i].resp.code = 422
               /\ calls[i] = 0
               /\ req[i].sent = NoPayload

C1_Witness ==
    \E i \in Requests :
        /\ Done(i)
        /\ req[i].at = "Connected"
        /\ req[i].body.message = StrOfLen(10001)
        /\ req[i].resp.code = 422
        /\ \E j \in Requests : calls[j] = 1

\* C2: a valid record handled while the publisher is not Connected
\* (Disconnected or Closed) is answered 503 at once and no send_and_wait call is
\* made for it.
C2_NotConnectedNeverSends ==
    \A i \in Requests :
        Handled(i) /\ Validate(req[i].body).ok /\ req[i].at # "Connected"
            => /\ Done(i)
               /\ req[i].resp.code = 503
               /\ calls[i] = 0

C4_BrokerFailureOneCall ==
    \A i \in Requests :
        /\ calls[i] <= 1
        /\ Done(i) /\ req[i].outcome = "kafka_error"
              => /\ req[i].resp.code = 503
                 /\ req[i].resp.detail = "Failed to queue log for processing: " \o req[i].error
                 /\ req[i].error \in BrokerMessages
                 /\ calls[i] = 1

C4_Witness ==
    \E i \in Requests :
        /\ Done(i)
        /\ req[i].at = "Connected"
        /\ req[i].outcome = "kafka_error"
        /\ req[i].error = "RequestTimedOutError"

\* C5, as stated: a send made while Connected that fails with an exception
\* other than a KafkaError is answered 503.
C5_OtherFailureUnavailable ==
    \A i \in Requests :
        Done(i) /\ req[i].at = "Connected" /\ req[i].outcome = "error"
            => req[i].resp.code = 503

\* C5, amended: such a failure is answered 500 with the fixed generic detail,
\* and 503 answers a failed send only when the failure is a KafkaError.
C5_OtherFailureInternalError ==
    \A i \in Requests :
        /\ Done(i) /\ req[i].outcome = "error"
              => /\ req[i].resp.code = 500
                 /\ req[i].resp.detail = "An unexpected error occurred while processing the log"
        /\ Done(i) /\ calls[i] > 0 /\ req[i].resp.code = 503
              => req[i].outcome = "kafka_error"

C5_Witness ==
    \E i \in Requests :
        Done(i) /\ req[i].at = "Connected" /\ req[i].outcome = "error"

\* C6: when every request carries a valid record, was handled while Connected
\* and met no failure of the broker client, every request that has been
\* answered was answered 202, and the client saw exactly one send_and_wait call
\* for each request handled, whatever the interleaving.
C6_ConcurrentAllAccepted ==
    (\A i \in Requests :
        Handled(i) => /\ Acceptable(req[i].body, {"absent", "null", "object"})
                      /\ req[i].at = "Connected"
                      /\ req[i].outcome \in {"none", "ack"})
        => \A i \in Requests :
              /\ Handled(i) => calls[i] = 1 /\ req[i].sent.topic = "logs-raw"
              /\ ~Handled(i) => calls[i] = 0
              /\ Done(i) => req[i].resp.code = 202

C6_Witness ==
    \A i \in Requests :
        /\ Done(i)
        /\ req[i].at = "Connected"
        /\ req[i].resp.code = 202
        /\ calls[i] = 1

\* C7: every /health response is a 200 whose kafka field reads "connected"
\* exactly when the publisher was Connected, "disconnected" otherwise.
C7_HealthReflectsState ==
    health # NoHealth
        => /\ health.code = 200
           /\ health.kafka \in {"connected", "disconnected"}
           /\ (health.kafka = "connected" <=> health.at = "Connected")

\* C9: the publisher state changes only from Disconnected to Connected, as
\* start() returns, and from Connected to Closed, as stop() returns; after a
\* failed start it stays Disconnected; shutdown when not Connected changes
\* nothing; a step of a request (ingest, send outcome, response, health) never
\* changes it.
C9_PublisherTransitions ==
    [][/\ PublisherState' # PublisherState
            => \/ /\ PublisherState = "Disconnected" /\ PublisherState' = "Connected"
                  /\ lifespan = "starting"
               \/ /\ PublisherState = "Connected" /\ PublisherState' = "Closed"
                  /\ lifespan = "stopping"
       /\ client = "failed" => PublisherState' = "Disconnected"
       /\ lifespan = "serving" /\ lifespan' # "serving" /\ PublisherState # "Connected"
            => lifespan' = "exited" /\ PublisherState' = PublisherState
       /\ req' # req \/ health' # health \/ calls' # calls
            => /\ PublisherState' = PublisherState
               /\ kafka_producer' = kafka_producer
               /\ client' = client]_vars

C9_Witness ==
    /\ client = "failed"
    /\ lifespan = "exited"
    /\ PublisherState = "Disconnected"
    /\ health.kafka = "disconnected"
    /\ \E i \in Requests : Done(i) /\ req[i].resp.code = 503

\* C10, as stated: LogCreate accepts a body exactly when the four required
\* fields are present, the timestamp parses, source has 1..255 characters,
\* message has 1..10000, level is one of the five names and metadata is absent
\* or an object; an accepted body without metadata gets the empty mapping.
C10_AcceptsAbsentOrObject ==
    parsed # NotValidated
        => /\ parsed.ok <=> Acceptable(payload, {"absent", "object"})
           /\ parsed.ok /\ payload.metadata = Absent
                => parsed.value.metadata = EmptyObject

\* C10, amended: as stated, with metadata absent, null or an object; an
\* accepted body without metadata gets the empty mapping, and any other
\* accepted body keeps the metadata it came with (null stays null).
C10_AcceptsAbsentNullOrObject ==
    parsed # NotValidated
        => /\ parsed.ok <=> Acceptable(payload, {"absent", "null", "object"})
           /\ parsed.ok /\ payload.metadata = Absent
                => parsed.value.metadata = EmptyObject
           /\ parsed.ok /\ payload.metadata # Absent
                => parsed.value.metadata = payload.metadata

C10_Witness ==
    /\ parsed.ok
    /\ payload.message = StrOfLen(10000)
    /\ payload.source = StrOfLen(255)
    /\ payload.metadata = Absent
    /\ parsed.value.metadata = EmptyObject

====
